---- MODULE Spec2Model ----
(***************************************************************************)
(* Batch scrape orchestration and idempotent upsert core of                *)
(* beat-books-data.                                                        *)
(*                                                                         *)
(* Part 1 (Spec): the scrape_jobs table, ScrapeJobRepository and           *)
(* BatchScrapeService.  execute_batch_job is an async function: it is cut  *)
(* at its two await points (scrape_and_store, asyncio.sleep); everything   *)
(* between two awaits is one atomic step of the event loop.                *)
(*                                                                         *)
(* Part 2 (SpecUpsert): one stat table, one SQLAlchemy session and         *)
(* BaseRepository.upsert as the per-stat services call it.                 *)
(***************************************************************************)
EXTENDS Integers, Sequences, FiniteSets, TLC

\* ---------------------------------------------------------------- bounds
\* longest target list handed to create_batch_job / execute_batch_job
MaxTargets == 2
\* calls made on the services and repositories in one behaviour (the upsert
\* calls of the stat table have their own bound)
MaxCalls == 2
\* upsert calls made in one behaviour
MaxUpserts == 3
\* last value of the clock read by datetime.utcnow()
MaxTime == 1
\* longest list of injury reports handed over in one call
MaxRecords == 2

\* increment calls started by the writers in one behaviour
MaxIncrements == 2

\* Optional[T]: None is the empty sequence, a value x is <<x>>.
None == << >>

Some(x) == << x >>

\* ------------------------------------------------------------- targets
\* A target is a dict; 'team' and 'year' may each be missing.  No code of
\* the orchestrator compares two targets or reads a team's name, so the
\* target at position i of a list is team i (the lists are duplicate-free);
\* a malformed target lacks 'year' or lacks 'team'.
Target(i) == [ team |-> i, year |-> 2024 ]

TargetsAt(i) == { Target(i), [ team |-> i ], [ year |-> 2024 ] }

TargetLists ==
    UNION { { l \in [1..n -> UNION { TargetsAt(i) : i \in 1..n }] :
                \A i \in 1..n : l[i] \in TargetsAt(i) } : n \in 0..MaxTargets }

\* str(e) of the exception raised by scrape_and_store
ErrorMessages == { "scrape failed" }

\* execute_batch_job invocations that may be in flight at once
TaskIds == { 1 }


VARIABLES
    jobs,       \* scrape_jobs table: jobs[id] is the row with primary key id
    now,        \* the clock behind datetime.utcnow()
    calls,      \* calls made so far
    tasks,      \* tasks[t]: one execute_batch_job invocation (its locals)
    result,     \* outcome of the last call that returned or raised
    rows,       \* one stat table, committed rows: rows[id]
    session,    \* the SQLAlchemy session of the upsert caller
    hist,       \* the upsert calls made on the session so far
    injury_reports, \* injury_reports table: its rows, in insertion order
    game_weather,   \* game_weather table: its rows, in insertion order
    last,       \* the last call made on these two tables, with its arguments
    writers     \* writers[w]: a session calling the counter increments

vars == << jobs, now, calls, tasks, result, rows, session, hist,
          injury_reports, game_weather, last, writers >>

\* job ids a caller may name: every stored id, and one that resolves to no job
JobIds == 1..(Len(jobs) + 1)

\* datetime.utcnow() read when the clock last showed `clock`: the same
\* instant or a later one.
UtcNow(clock) == { u \in { clock, clock + 1 } : u <= MaxTime }

\* ------------------------------------------------------ ScrapeJob entity
\* Columns of scrape_jobs (created_at, set once by the column default and
\* never read by the orchestrator, is left out).
NewScrapeJob(total_urls) ==
    [ status       |-> "pending",
      total_urls   |-> total_urls,
      processed    |-> 0,
      failed       |-> 0,
      errors       |-> None,
      completed_at |-> None ]

Statuses == { "pending", "running", "complete", "failed" }

\* ------------------------------------------------- BaseRepository (ORM)
\* session.get(model, id): the row, or None.
get_by_id(db, id) == IF id \in DOMAIN db THEN Some(db[id]) ELSE None

\* BaseRepository.create with commit=True: INSERT with the next
\* autoincrement id, commit, refresh.
create(db, obj) == Append(db, obj)

\* BaseRepository.update with commit=True.  merge() of an object that is
\* already in the session copies nothing; commit() flushes an UPDATE of the
\* attributes that received a set event (modified); refresh() then reloads
\* every column from the row.  obj is the in-memory object after the
\* caller's changes, modified the attributes the caller assigned.
update(db, id, obj, modified) ==
    [ db EXCEPT ![id] =
        [ a \in DOMAIN db[id] |-> IF a \in modified THEN obj[a] ELSE db[id][a] ] ]

\* --------------------------------------------------- ScrapeJobRepository
\* mutant of create_job: total_urls is not passed to the entity, whose
\* column default (0) is stored
create_job_default_total(db, total_urls) == create(db, NewScrapeJob(0))

create_job(db, total_urls) == create(db, NewScrapeJob(total_urls))

update_job_status(db, job_id, status) ==
    IF get_by_id(db, job_id) # None
    THEN update(db, job_id, [ db[job_id] EXCEPT !.status = status ], { "status" })
    ELSE db

increment_processed(db, job_id) ==
    IF get_by_id(db, job_id) # None
    THEN update(db, job_id,
                [ db[job_id] EXCEPT !.processed = @ + 1 ], { "processed" })
    ELSE db

\* job.failed += 1 is an assignment.  job.errors = [] is an assignment (made
\* only when errors is None); job.errors.append(error_info) changes the list
\* in place.  ScrapeJob.errors is a plain JSON column (no MutableList), so an
\* in-place change is no set event: when errors was already a list, the
\* attribute is not modified and the UPDATE does not write it.
IncrementFailedObject(job, error_info) ==
    [ job EXCEPT !.failed = @ + 1,
                 !.errors = IF job.errors = None
                            THEN Some(<< error_info >>)
                            ELSE Some(Append(job.errors[1], error_info)) ]

IncrementFailedModified(job) ==
    IF job.errors = None THEN { "failed", "errors" } ELSE { "failed" }

increment_failed(db, job_id, error_info) ==
    IF get_by_id(db, job_id) # None
    THEN update(db, job_id,
                IncrementFailedObject(db[job_id], error_info),
                IncrementFailedModified(db[job_id]))
    ELSE db

\* mutant of mark_complete: an id that resolves to no job gets a job stored
\* for it, already complete
mark_complete_creates(db, job_id, utcnow) ==
    IF get_by_id(db, job_id) # None
    THEN update(db, job_id,
                [ db[job_id] EXCEPT !.status = "complete",
                                    !.completed_at = Some(utcnow) ],
                { "status", "completed_at" })
    ELSE create(db, [ NewScrapeJob(0) EXCEPT !.status = "complete",
                                             !.completed_at = Some(utcnow) ])

mark_complete(db, job_id, utcnow) ==
    IF get_by_id(db, job_id) # None
    THEN update(db, job_id,
                [ db[job_id] EXCEPT !.status = "complete",
                                    !.completed_at = Some(utcnow) ],
                { "status", "completed_at" })
    ELSE db

\* what a repository method returns: the refreshed job (by its id), or None
Returned(db, job_id) == IF get_by_id(db, job_id) # None THEN Some(job_id) ELSE None

\* ---------------------------------------------------- BatchScrapeService
\* "team" not in target or "year" not in target
TargetOk(target) == "team" \in DOMAIN target /\ "year" \in DOMAIN target

\* mutant of ValidationError: only the first target is validated
ValidationError_first_only(targets) ==
    IF targets = << >>
    THEN Some("ValueError: Targets list cannot be empty")
    ELSE IF ~TargetOk(targets[1])
         THEN Some("ValueError: Each target must have 'team' and 'year' keys")
         ELSE None

\* The checks of create_batch_job, in the order the code makes them: the
\* message of the ValueError raised, or None.
ValidationError(targets) ==
    IF targets = << >>
    THEN Some("ValueError: Targets list cannot be empty")
    ELSE IF \E i \in 1..Len(targets) : ~TargetOk(targets[i])
         THEN Some("ValueError: Each target must have 'team' and 'year' keys")
         ELSE None

\* How the last call ended: the exception it raised ("" when it returned)
\* and what it returned: None, or the id of the job it returned.
Outcome(exc, ret) == [ exc |-> exc, ret |-> ret ]

create_batch_job(targets) ==
    /\ calls < MaxCalls
    /\ calls' = calls + 1
    /\ IF ValidationError(targets) # None
       THEN /\ result' = Outcome(ValidationError(targets)[1], None)
            /\ UNCHANGED jobs
       ELSE /\ jobs' = create_job(jobs, Len(targets))
            /\ result' = Outcome("", Some(Len(jobs')))
    /\ UNCHANGED << now, tasks, rows, session, hist, injury_reports, game_weather, last, writers >>

\* The locals of one execute_batch_job invocation.  attempted (the positions
\* for which scrape_and_store was called, in call order), raised (for each
\* call that ended, whether it raised) and delays (the asyncio.sleep calls
\* that returned) record its calls to its collaborators.
IdleTask ==
    [ pc |-> "idle", job_id |-> 0, targets |-> << >>, idx |-> 0,
      succeeded |-> 0, failed_count |-> 0, errors |-> << >>,
      attempted |-> << >>, raised |-> << >>, delays |-> 0, exc |-> "" ]

\* An exception leaves execute_batch_job: its arguments and locals are gone;
\* what it did (idx, the counts, attempted, delays) stays observable.
Raise(task, exc) ==
    [ task EXCEPT !.pc = "raised", !.exc = exc, !.targets = << >>, !.errors = << >> ]

\* Top of one loop iteration up to the await: team = target["team"] and
\* year = target["year"] raise KeyError outside the try block when the key
\* is missing; otherwise scrape_and_store(team, year) is called and awaited.
EnterTarget(task, idx) ==
    IF TargetOk(task.targets[idx])
    THEN [ task EXCEPT !.pc = "scraping", !.idx = idx,
                       !.attempted = Append(@, idx) ]
    ELSE Raise([ task EXCEPT !.idx = idx ], "KeyError")

\* mutant of DelayFollows: the 0-based test of the code applied to the
\* 1-based idx, no delay after the target before the last
DelayFollows_off_by_one(task) == task.idx < Len(task.targets) - 1

\* idx < len(targets) - 1 for the 0-based idx of the code (ours is 1-based)
DelayFollows(task) == task.idx < Len(task.targets)

\* mutant of AfterTarget: a batch in which no target succeeded is stored
\* with status failed
AfterTarget_marks_failed(t, db, task, clock) ==
    IF DelayFollows(task)
    THEN /\ jobs' = db
         /\ now' = clock
         /\ tasks' = [ tasks EXCEPT ![t] = [ task EXCEPT !.pc = "sleeping" ] ]
    ELSE \E utcnow \in UtcNow(clock) :
            /\ jobs' = IF task.succeeded = 0 /\ task.targets # << >>
                       THEN update_job_status(db, task.job_id, "failed")
                       ELSE mark_complete(db, task.job_id, utcnow)
            /\ now' = utcnow
            /\ tasks' = [ tasks EXCEPT ![t] = [ task EXCEPT !.pc = "done" ] ]

\* From the end of the try/except of one iteration to the next await or to
\* the return: the rate-limit check, then either the sleep is awaited or the
\* loop ends, the job is marked complete and the summary is returned.
AfterTarget(t, db, task, clock) ==
    IF DelayFollows(task)
    THEN /\ jobs' = db
         /\ now' = clock
         /\ tasks' = [ tasks EXCEPT ![t] = [ task EXCEPT !.pc = "sleeping" ] ]
    ELSE \E utcnow \in UtcNow(clock) :
            /\ jobs' = mark_complete(db, task.job_id, utcnow)
            /\ now' = utcnow
            /\ tasks' = [ tasks EXCEPT ![t] = [ task EXCEPT !.pc = "done" ] ]

\* The dict execute_batch_job returns, from its locals at the return.
Summary(task) ==
    [ job_id    |-> task.job_id,
      total     |-> Len(task.targets),
      succeeded |-> task.succeeded,
      failed    |-> task.failed_count,
      errors    |-> task.errors ]

\* mutant of execute_batch_job: the job is not looked up, the batch starts
\* whatever the id
execute_batch_job_no_lookup(t, job_id, targets) ==
    /\ calls < MaxCalls
    /\ tasks[t].pc \in { "idle", "done", "raised" }
    /\ calls' = calls + 1
    /\ LET task == [ IdleTask EXCEPT !.job_id = job_id, !.targets = targets ]
           db == update_job_status(jobs, job_id, "running")
       IN  IF targets = << >>
           THEN AfterTarget(t, db, task, now)
           ELSE /\ jobs' = db
                /\ tasks' = [ tasks EXCEPT ![t] = EnterTarget(task, 1) ]
                /\ UNCHANGED now
    /\ UNCHANGED << result, rows, session, hist, injury_reports, game_weather, last, writers >>

\* execute_batch_job from its entry to its first await (or, for an empty
\* list, to its return).
execute_batch_job(t, job_id, targets) ==
    /\ calls < MaxCalls
    /\ tasks[t].pc \in { "idle", "done", "raised" }
    /\ calls' = calls + 1
    /\ LET task == [ IdleTask EXCEPT !.job_id = job_id, !.targets = targets ]
       IN  IF get_by_id(jobs, job_id) = None
           THEN /\ tasks' = [ tasks EXCEPT ![t] = Raise(task, "ValueError: Job not found") ]
                /\ UNCHANGED << jobs, now >>
           ELSE LET db == update_job_status(jobs, job_id, "running")
                IN  IF targets = << >>
                    THEN AfterTarget(t, db, task, now)
                    ELSE /\ jobs' = db
                         /\ tasks' = [ tasks EXCEPT ![t] = EnterTarget(task, 1) ]
                         /\ UNCHANGED now
    /\ UNCHANGED << result, rows, session, hist, injury_reports, game_weather, last, writers >>

\* run_batch_scrape up to its first suspension: create_batch_job has no
\* await inside, so awaiting it does not yield; its ValueError leaves
\* run_batch_scrape, otherwise execute_batch_job starts on the new job's id
\* with the same list.
run_batch_scrape(t, targets) ==
    /\ calls < MaxCalls
    /\ tasks[t].pc \in { "idle", "done", "raised" }
    /\ calls' = calls + 1
    /\ IF ValidationError(targets) # None
       THEN /\ tasks' = [ tasks EXCEPT ![t] = Raise(IdleTask, ValidationError(targets)[1]) ]
            /\ UNCHANGED << jobs, now >>
       ELSE LET created == create_job(jobs, Len(targets))
                job_id  == Len(created)
                task    == [ IdleTask EXCEPT !.job_id = job_id, !.targets = targets ]
            IN  /\ jobs' = update_job_status(created, job_id, "running")
                /\ tasks' = [ tasks EXCEPT ![t] = EnterTarget(task, 1) ]
                /\ UNCHANGED now
    /\ UNCHANGED << result, rows, session, hist, injury_reports, game_weather, last, writers >>

\* await scrape_and_store(team, year) returns: increment_processed,
\* succeeded += 1, then the rest of the iteration.
ScrapeReturns(t) ==
    /\ tasks[t].pc = "scraping"
    /\ LET task == tasks[t]
       IN  AfterTarget(t, increment_processed(jobs, task.job_id),
                       [ task EXCEPT !.succeeded = @ + 1,
                                     !.raised = Append(@, FALSE) ], now)
    /\ UNCHANGED << calls, result, rows, session, hist, injury_reports, game_weather, last, writers >>

\* mutant of ScrapeRaises: no except block, the exception of
\* scrape_and_store leaves execute_batch_job
ScrapeRaises_uncaught(t, message) ==
    /\ tasks[t].pc = "scraping"
    /\ tasks' = [ tasks EXCEPT ![t] =
                    Raise([ tasks[t] EXCEPT !.raised = Append(@, TRUE) ], message) ]
    /\ UNCHANGED << jobs, now, calls, result, rows, session, hist, injury_reports, game_weather, last, writers >>

\* mutant of ScrapeRaises: the failure is counted and stored, but
\* errors.append(error_info) is missing
ScrapeRaises_unrecorded(t, message) ==
    /\ tasks[t].pc = "scraping"
    /\ \E utcnow \in UtcNow(now) :
        LET task == tasks[t]
            error_info == [ target    |-> task.targets[task.idx],
                            error     |-> message,
                            timestamp |-> utcnow ]
        IN  AfterTarget(t, increment_failed(jobs, task.job_id, error_info),
                        [ task EXCEPT !.failed_count = @ + 1,
                                      !.raised = Append(@, TRUE) ],
                        utcnow)
    /\ UNCHANGED << calls, result, rows, session, hist, injury_reports, game_weather, last, writers >>

\* mutant of ScrapeRaises: the failed target is counted as processed too
ScrapeRaises_counts_both(t, message) ==
    /\ tasks[t].pc = "scraping"
    /\ \E utcnow \in UtcNow(now) :
        LET task == tasks[t]
            error_info == [ target    |-> task.targets[task.idx],
                            error     |-> message,
                            timestamp |-> utcnow ]
        IN  AfterTarget(t, increment_failed(increment_processed(jobs, task.job_id),
                                            task.job_id, error_info),
                        [ task EXCEPT !.failed_count = @ + 1,
                                      !.errors = Append(@, error_info),
                                      !.raised = Append(@, TRUE) ],
                        utcnow)
    /\ UNCHANGED << calls, result, rows, session, hist, injury_reports, game_weather, last, writers >>

\* await scrape_and_store(team, year) raises: the except block builds
\* error_info (timestamp: utcnow().isoformat(), kept as the clock value),
\* increment_failed, failed_count += 1, errors.append, then the rest of the
\* iteration.
ScrapeRaises(t, message) ==
    /\ tasks[t].pc = "scraping"
    /\ \E utcnow \in UtcNow(now) :
        LET task == tasks[t]
            error_info == [ target    |-> task.targets[task.idx],
                            error     |-> message,
                            timestamp |-> utcnow ]
        IN  AfterTarget(t, increment_failed(jobs, task.job_id, error_info),
                        [ task EXCEPT !.failed_count = @ + 1,
                                      !.errors = Append(@, error_info),
                                      !.raised = Append(@, TRUE) ],
                        utcnow)
    /\ UNCHANGED << calls, result, rows, session, hist, injury_reports, game_weather, last, writers >>

\* await asyncio.sleep(settings.SCRAPE_DELAY_SECONDS) returns: the loop
\* moves to the next target.
SleepReturns(t) ==
    /\ tasks[t].pc = "sleeping"
    /\ tasks' = [ tasks EXCEPT ![t] =
                    EnterTarget([ tasks[t] EXCEPT !.delays = @ + 1 ], tasks[t].idx + 1) ]
    /\ UNCHANGED << jobs, now, calls, result, rows, session, hist, injury_reports, game_weather, last, writers >>

\* ------------------- job-repository calls that raise inside a run
\* A call on the job repository fails (the database refuses the statement
\* or the commit): the call raises, the failed commit is rolled back and
\* nothing of the call is stored.
StorageError == "OperationalError"

\* the loop has ended and mark_complete raises: nothing catches it
AfterTargetFails(t, db, task, clock) ==
    /\ ~DelayFollows(task)
    /\ jobs' = db
    /\ now' = clock
    /\ tasks' = [ tasks EXCEPT ![t] = Raise(task, StorageError) ]

\* execute_batch_job on a stored job when update_job_status raises (line 99,
\* outside any try), or, for an empty list, when mark_complete raises
execute_batch_job_fails(t, job_id, targets, failing) ==
    /\ calls < MaxCalls
    /\ tasks[t].pc \in { "idle", "done", "raised" }
    /\ get_by_id(jobs, job_id) # None
    /\ calls' = calls + 1
    /\ LET task == [ IdleTask EXCEPT !.job_id = job_id, !.targets = targets ]
       IN  IF failing = "update_job_status"
           THEN /\ tasks' = [ tasks EXCEPT ![t] = Raise(task, StorageError) ]
                /\ UNCHANGED << jobs, now >>
           ELSE /\ targets = << >>
                /\ AfterTargetFails(t, update_job_status(jobs, job_id, "running"),
                                    task, now)
    /\ UNCHANGED << result, rows, session, hist, injury_reports, game_weather, last, writers >>

\* await scrape_and_store returns and a repository call of the rest of the
\* iteration raises.  increment_processed (line 115) is inside the try
\* block: its exception is caught by `except Exception`, error_info is
\* built from it and increment_failed is called; when that call raises too
\* (failing = "increment_failed") the exception leaves the handler.
ScrapeReturnsStorageFails(t, failing) ==
    /\ tasks[t].pc = "scraping"
    /\ LET task == [ tasks[t] EXCEPT !.raised = Append(@, FALSE) ]
       IN  CASE failing = "increment_processed" ->
                  \E utcnow \in UtcNow(now) :
                      LET error_info == [ target    |-> task.targets[task.idx],
                                          error     |-> StorageError,
                                          timestamp |-> utcnow ]
                      IN  AfterTarget(t, increment_failed(jobs, task.job_id, error_info),
                                      [ task EXCEPT !.failed_count = @ + 1,
                                                    !.errors = Append(@, error_info) ],
                                      utcnow)
             [] failing = "increment_failed" ->
                  \E utcnow \in UtcNow(now) :
                      /\ tasks' = [ tasks EXCEPT ![t] = Raise(task, StorageError) ]
                      /\ now' = utcnow
                      /\ UNCHANGED jobs
             [] failing = "mark_complete" ->
                  AfterTargetFails(t, increment_processed(jobs, task.job_id),
                                   [ task EXCEPT !.succeeded = @ + 1 ], now)
    /\ UNCHANGED << calls, result, rows, session, hist, injury_reports, game_weather, last, writers >>

\* await scrape_and_store raises and a repository call of the rest of the
\* iteration raises: increment_failed inside the except block, or
\* mark_complete after the loop
ScrapeRaisesStorageFails(t, message, failing) ==
    /\ tasks[t].pc = "scraping"
    /\ \E utcnow \in UtcNow(now) :
        LET task == [ tasks[t] EXCEPT !.raised = Append(@, TRUE) ]
            error_info == [ target    |-> task.targets[task.idx],
                            error     |-> message,
                            timestamp |-> utcnow ]
        IN  IF failing = "increment_failed"
            THEN /\ tasks' = [ tasks EXCEPT ![t] = Raise(task, StorageError) ]
                 /\ now' = utcnow
                 /\ UNCHANGED jobs
            ELSE AfterTargetFails(t, increment_failed(jobs, task.job_id, error_info),
                                  [ task EXCEPT !.failed_count = @ + 1,
                                                !.errors = Append(@, error_info) ],
                                  utcnow)
    /\ UNCHANGED << calls, result, rows, session, hist, injury_reports, game_weather, last, writers >>

\* ------------------------------ the counter increments, two sessions
\* Two ScrapeJobRepository objects, each on its own session, call
\* increment_processed / increment_failed.  A call is a read (get_by_id:
\* the SELECT of session.get; the object is expired after every commit, so
\* each call loads the row again) and a write (update: the UPDATE of the
\* attributes assigned, with the values computed from the loaded object,
\* then commit); the sessions interleave between the two.
Writers == { 1, 2 }

\* pc: idle or loaded; op and job_id: the call in progress; job: the object
\* get_by_id loaded; done: the calls that returned, in order
IdleWriter == [ pc |-> "idle", op |-> "", job_id |-> 0, job |-> None, done |-> << >> ]

IncrementOps == { "increment_processed", "increment_failed" }

Started ==
    LET RECURSIVE Sum(_)
        Sum(S) == IF S = { } THEN 0
                  ELSE LET w == CHOOSE x \in S : TRUE
                       IN  Len(writers[w].done)
                           + (IF writers[w].pc = "loaded" THEN 1 ELSE 0)
                           + Sum(S \ { w })
    IN  Sum(Writers)

\* job = self.get_by_id(job_id), for a stored job
WriterReads(w, op, job_id) ==
    /\ Started < MaxIncrements
    /\ writers[w].pc = "idle"
    /\ get_by_id(jobs, job_id) # None
    /\ writers' = [ writers EXCEPT ![w] =
                      [ @ EXCEPT !.pc = "loaded", !.op = op, !.job_id = job_id,
                                 !.job = get_by_id(jobs, job_id) ] ]
    /\ UNCHANGED << jobs, now, calls, tasks, result, rows, session, hist,
                   injury_reports, game_weather, last >>

\* the object after the assignments of the call, and the attributes assigned
WriterObject(job, op, error_info) ==
    IF op = "increment_processed"
    THEN [ job EXCEPT !.processed = @ + 1 ]
    ELSE IncrementFailedObject(job, error_info)

WriterModified(job, op) ==
    IF op = "increment_processed" THEN { "processed" } ELSE IncrementFailedModified(job)

\* mutant of WriterWrites: update(job, commit=False), nothing is stored
WriterWrites_no_commit(w) ==
    /\ writers[w].pc = "loaded"
    /\ writers' = [ writers EXCEPT ![w] =
                      [ @ EXCEPT !.pc = "idle", !.op = "", !.job_id = 0, !.job = None,
                                 !.done = Append(@, [ op |-> writers[w].op,
                                                      job_id |-> writers[w].job_id ]) ] ]
    /\ UNCHANGED << jobs, now, calls, tasks, result, rows, session, hist,
                   injury_reports, game_weather, last >>

\* job.processed += 1 (or job.failed += 1 and the error record), then
\* self.update(job): merge, commit, refresh
WriterWrites(w) ==
    /\ writers[w].pc = "loaded"
    /\ LET writer == writers[w]
           error_info == [ target |-> Target(1), error |-> "scrape failed",
                           timestamp |-> now ]
       IN  /\ jobs' = update(jobs, writer.job_id,
                             WriterObject(writer.job[1], writer.op, error_info),
                             WriterModified(writer.job[1], writer.op))
           /\ writers' = [ writers EXCEPT ![w] =
                             [ @ EXCEPT !.pc = "idle", !.op = "", !.job_id = 0,
                                        !.job = None,
                                        !.done = Append(@, [ op |-> writer.op,
                                                             job_id |-> writer.job_id ]) ] ]
    /\ UNCHANGED << now, calls, tasks, result, rows, session, hist,
                   injury_reports, game_weather, last >>

\* ------------------------------ direct calls on ScrapeJobRepository
RepoCall(db, job_id) ==
    /\ calls < MaxCalls
    /\ calls' = calls + 1
    /\ jobs' = db
    /\ result' = Outcome("", Returned(db, job_id))
    /\ UNCHANGED << tasks, rows, session, hist, injury_reports, game_weather, last, writers >>

RepoUpdateJobStatus(job_id, status) ==
    /\ RepoCall(update_job_status(jobs, job_id, status), job_id)
    /\ UNCHANGED now

RepoIncrementProcessed(job_id) ==
    /\ RepoCall(increment_processed(jobs, job_id), job_id)
    /\ UNCHANGED now

\* error_info is the caller's dict: a record built as execute_batch_job
\* builds it.
RepoIncrementFailed(job_id, message) ==
    /\ RepoCall(
                increment_failed(jobs, job_id,
                    [ target |-> Target(1), error |-> message, timestamp |-> now ]),
                job_id)
    /\ UNCHANGED now

RepoMarkComplete(job_id) ==
    \E utcnow \in UtcNow(now) :
        /\ RepoCall(mark_complete(jobs, job_id, utcnow), job_id)
        /\ now' = utcnow

\* BatchScrapeService.get_job_status: the dict of the job's columns (stood
\* for by the job's id), or None; nothing is written.
GetJobStatus(job_id) ==
    /\ RepoCall(jobs, job_id)
    /\ UNCHANGED now

\* ------------------------------------------ stat table and its session
\* A stat entity (Standings: natural key tm, season) with two other
\* columns; the primary key id is the row's position in the table.
KeyFields == { "tm", "season" }

StatObjects == [ tm : { "KAN", "BUF" }, season : { 2023, 2024 }, w : { 0, 1 }, l : { 0, 1 } ]

\* unique_fields as every per-stat service builds it from the DTO
NaturalKey(obj) == [ f \in KeyFields |-> obj[f] ]

\* The session: autoflush is its configuration (False for SessionLocal,
\* True for a default sessionmaker); tx is the table as its transaction sees
\* it (committed rows and what it flushed); mem[id] is the in-memory state
\* of the persistent object id (equal to tx[id] unless modified and not yet
\* flushed); new is session.new, the added objects not yet flushed.
NewSession(autoflush, table) ==
    [ autoflush |-> autoflush, tx |-> table, mem |-> table, new |-> << >> ]

\* Session.flush(): UPDATE every modified object, INSERT every new one in
\* the order added (the next autoincrement ids).
flush(s) ==
    [ s EXCEPT !.tx = s.mem \o s.new, !.mem = s.mem \o s.new, !.new = << >> ]

\* mutant of Matching: a row matches when it agrees on any one unique field
Matching_any_field(s, unique_fields) ==
    { id \in DOMAIN s.tx :
        \E field \in DOMAIN unique_fields : s.tx[id][field] = unique_fields[field] }

\* select(model).where(field == value for each unique field), run against
\* the database (so after an autoflush only when the session autoflushes):
\* the ids of the rows that match.
Matching(s, unique_fields) ==
    { id \in DOMAIN s.tx :
        \A field \in DOMAIN unique_fields : s.tx[id][field] = unique_fields[field] }

\* for key, value in vars(obj).items(): setattr(existing, key, value) unless
\* key starts with "_" or is "id".  The services build obj from
\* dto.model_dump(), so vars(obj) holds every column.
Overwrite(existing, obj) ==
    [ key \in DOMAIN existing |->
        IF key \in DOMAIN obj /\ key # "id" THEN obj[key] ELSE existing[key] ]

\* BaseRepository.upsert up to its commit: the session after the call when
\* .first() returned the row `existing` (0: no row matched).
UpsertSession(s, obj, existing) ==
    IF existing # 0
    THEN [ s EXCEPT !.mem[existing] = Overwrite(@, obj) ]
    ELSE [ s EXCEPT !.new = Append(@, obj) ]

\* the session as the SELECT of upsert leaves it
Queried(s) == IF s.autoflush THEN flush(s) ELSE s

\* .first() of a SELECT without ORDER BY: any matching row; 0 for no row
First(matching) == IF matching = { } THEN { 0 } ELSE matching

\* One upsert call: its candidate, its commit flag and the id of the object
\* it returned (for an object only added: the id its INSERT will get).
Record(obj, commit, id) == [ obj |-> obj, commit |-> commit, id |-> id ]

ReturnedId(s, existing) ==
    IF existing # 0 THEN existing ELSE Len(s.tx) + Len(s.new) + 1

\* hist.recent: the last two upsert calls not rolled back; hist.pending: the
\* natural keys upserted and not yet committed; hist.committed: those whose
\* upsert was committed; hist.n: the upsert calls made.
NoHistory == [ recent |-> << >>, pending |-> { }, committed |-> { }, n |-> 0 ]

Remember(h, obj, commit, id) ==
    LET keys == h.pending \cup { NaturalKey(obj) }
    IN  [ recent    |-> IF h.recent = << >>
                        THEN << Record(obj, commit, id) >>
                        ELSE << h.recent[Len(h.recent)], Record(obj, commit, id) >>,
          pending   |-> IF commit THEN { } ELSE keys,
          committed |-> IF commit THEN h.committed \cup keys ELSE h.committed,
          n         |-> h.n + 1 ]

\* repo.upsert(obj, unique_fields=NaturalKey(obj), commit=commit)
upsert(obj, commit) ==
    /\ hist.n < MaxUpserts
    /\ \E existing \in First(Matching(Queried(session), NaturalKey(obj))) :
          LET s == UpsertSession(Queried(session), obj, existing)
          IN  /\ IF commit
                 THEN /\ session' = flush(s)
                      /\ rows' = flush(s).tx
                 ELSE /\ session' = s
                      /\ UNCHANGED rows
              /\ hist' = Remember(hist, obj, commit,
                                  ReturnedId(Queried(session), existing))
    /\ UNCHANGED << jobs, now, calls, tasks, result,
                   injury_reports, game_weather, last, writers >>

\* db.commit(): the single commit that ends a per-stat scrape_and_store
SessionCommit ==
    /\ hist.pending # { }
    /\ session' = flush(session)
    /\ rows' = flush(session).tx
    /\ hist' = [ hist EXCEPT !.pending = { }, !.committed = @ \cup hist.pending ]
    /\ UNCHANGED << jobs, now, calls, tasks, result,
                   injury_reports, game_weather, last, writers >>

\* mutant of SessionClose: closing the session writes its pending work
SessionClose_commits ==
    /\ hist.pending # { }
    /\ session' = flush(session)
    /\ rows' = flush(session).tx
    /\ hist' = [ hist EXCEPT !.pending = { }, !.recent = << >> ]
    /\ UNCHANGED << jobs, now, calls, tasks, result,
                   injury_reports, game_weather, last, writers >>

\* db.close() with uncommitted work (the finally block after an exception):
\* the transaction is rolled back and the session's objects are dropped.
SessionClose ==
    /\ hist.pending # { }
    /\ session' = NewSession(session.autoflush, rows)
    /\ hist' = [ hist EXCEPT !.pending = { }, !.recent = << >> ]
    /\ UNCHANGED << rows, jobs, now, calls, tasks, result,
                   injury_reports, game_weather, last, writers >>

\* ------------------------------------- delete-then-reinsert tables
Seasons == { 2024 }

Weeks == { 5, 6 }

\* the lists of at most n elements of S
ListsOf(S, n) == UNION { [1..k -> S] : k \in 0..n }

\* session.delete(row) for each of the rows `ids`, committed: the table
\* without them, the others in their order
Without(table, ids) ==
    LET kept   == { i \in DOMAIN table : i \notin ids }
        Nth(k) == CHOOSE i \in kept : Cardinality({ j \in kept : j < i }) = k - 1
    IN  [ k \in 1..Cardinality(kept) |-> table[Nth(k)] ]

\* No call made yet on the two tables.
NoCall == [ op |-> "none", upserts_only |-> TRUE ]

\* InjuryReportCreate DTOs: the columns season, week and player_name (team,
\* position, designation, injury_type and report_date are copied from the
\* DTO the same way and never read by the repository's delete).
InjuryReportCreates ==
    [ season : Seasons, week : Weeks, player_name : { "Smith", "Jones" } ]

\* InjuryReport(season=dto.season, week=dto.week, player_name=...)
InjuryReport(dto) ==
    [ season |-> dto.season, week |-> dto.week, player_name |-> dto.player_name ]

\* the entities made from a list of DTOs, in its order
InjuryReports(dtos) == [ i \in DOMAIN dtos |-> InjuryReport(dtos[i]) ]

\* InjuryReportRepository.create_from_dto: INSERT, commit, refresh
injury_create_from_dto(table, dto) == Append(table, InjuryReport(dto))

\* InjuryReportRepository.get_by_week: the rows with that season and week
get_by_week(table, season, week) ==
    { i \in DOMAIN table : table[i].season = season /\ table[i].week = week }

delete_by_week(table, season, week) ==
    Without(table, get_by_week(table, season, week))

\* for dto in dtos: entity = self.create_from_dto(dto)
RECURSIVE CreateEach(_, _)
CreateEach(table, dtos) ==
    IF dtos = << >>
    THEN table
    ELSE CreateEach(injury_create_from_dto(table, Head(dtos)), Tail(dtos))

\* mutant of upsert_week_reports: the existing reports of the week are not
\* deleted
upsert_week_reports_no_delete(table, season, week, dtos) ==
    CreateEach(table, dtos)

upsert_week_reports(table, season, week, dtos) ==
    CreateEach(delete_by_week(table, season, week), dtos)

\* A call on the injury reports: its arguments (dtos: the DTOs handed over
\* or scraped) and the number of rows of that week stored before it.
InjuryCall(op, season, week, dtos) ==
    [ op |-> op, season |-> season, week |-> week, dtos |-> dtos,
      before |-> Cardinality(get_by_week(injury_reports, season, week)) ]

\* repo.upsert_week_reports(season, week, dtos), called directly
UpsertWeekReports(season, week, dtos) ==
    /\ calls < MaxCalls
    /\ calls' = calls + 1
    /\ injury_reports' = upsert_week_reports(injury_reports, season, week, dtos)
    /\ result' = Outcome("", Some(InjuryReports(dtos)))
    /\ last' = InjuryCall("upsert_week_reports", season, week, dtos)
    /\ UNCHANGED << jobs, now, tasks, rows, session, hist, game_weather, writers >>

\* what scrape_weekly_injuries_pfr(season, week) can return: every DTO it
\* builds has season=season and week=week
Scraped(season, week) ==
    ListsOf({ dto \in InjuryReportCreates :
                dto.season = season /\ dto.week = week }, MaxRecords)

\* InjuryReportService.scrape_and_store(season, week) when the scrape
\* returned injury_dtos: an empty list is returned at once, before the
\* repository is called.
InjuryScrapeAndStore(season, week, injury_dtos) ==
    /\ calls < MaxCalls
    /\ calls' = calls + 1
    /\ IF injury_dtos = << >>
       THEN /\ UNCHANGED injury_reports
            /\ result' = Outcome("", Some(<< >>))
       ELSE /\ injury_reports' =
                  upsert_week_reports(injury_reports, season, week, injury_dtos)
            /\ result' = Outcome("", Some(InjuryReports(injury_dtos)))
    /\ last' = InjuryCall("scrape_and_store", season, week, injury_dtos)
    /\ UNCHANGED << jobs, now, tasks, rows, session, hist, game_weather, writers >>

\* InjuryReportService.scrape_and_store(season, week) when the scrape
\* raised: the exception is re-raised, the repository is not called.
InjuryScrapeRaises(season, week) ==
    /\ calls < MaxCalls
    /\ calls' = calls + 1
    /\ result' = Outcome("Exception", None)
    /\ last' = InjuryCall("scrape_and_store", season, week, << >>)
    /\ UNCHANGED << jobs, now, tasks, rows, session, hist,
                    injury_reports, game_weather, writers >>

\* GameWeatherCreate DTOs: the natural key (season, week, home_team) and
\* one of the weather columns (the others are copied the same way).
GameWeatherCreates ==
    [ season : Seasons, week : Weeks, home_team : { "KAN", "BUF" },
      temperature : { 50, 70 } ]

\* GameWeather(season=dto.season, week=dto.week, home_team=..., ...)
GameWeather(dto) ==
    [ season |-> dto.season, week |-> dto.week, home_team |-> dto.home_team,
      temperature |-> dto.temperature ]

\* GameWeatherRepository.create_from_dto: INSERT, commit, refresh
weather_create_from_dto(table, dto) == Append(table, GameWeather(dto))

\* the rows the SELECT of get_by_game matches; scalar_one_or_none() returns
\* the row, None when there is none, and raises MultipleResultsFound when
\* there is more than one
get_by_game(table, season, week, home_team) ==
    { i \in DOMAIN table : /\ table[i].season = season
                           /\ table[i].week = week
                           /\ table[i].home_team = home_team }

\* mutant of delete_by_game: nothing is deleted
delete_by_game_keeps(table, season, week, home_team) == table

\* existing = self.get_by_game(...); if existing: self.delete(existing)
\* (reached only when get_by_game did not raise)
delete_by_game(table, season, week, home_team) ==
    Without(table, get_by_game(table, season, week, home_team))

upsert_game_weather(table, dto) ==
    weather_create_from_dto(
        delete_by_game(table, dto.season, dto.week, dto.home_team), dto)

\* A call on the game weather; upserts_only: every call so far was
\* upsert_game_weather.
WeatherCall(op, dto) ==
    [ op |-> op, dto |-> dto,
      upserts_only |-> last.upserts_only /\ op = "upsert_game_weather" ]

\* repo.upsert_game_weather(dto)
UpsertGameWeather(dto) ==
    /\ calls < MaxCalls
    /\ calls' = calls + 1
    /\ IF Cardinality(get_by_game(game_weather,
                                  dto.season, dto.week, dto.home_team)) > 1
       THEN /\ UNCHANGED game_weather
            /\ result' = Outcome("MultipleResultsFound", None)
       ELSE /\ game_weather' = upsert_game_weather(game_weather, dto)
            /\ result' = Outcome("", Some(GameWeather(dto)))
    /\ last' = WeatherCall("upsert_game_weather", dto)
    /\ UNCHANGED << jobs, now, tasks, rows, session, hist, injury_reports, writers >>

\* repo.create_from_dto(dto), called directly
WeatherCreateFromDto(dto) ==
    /\ calls < MaxCalls
    /\ calls' = calls + 1
    /\ game_weather' = weather_create_from_dto(game_weather, dto)
    /\ result' = Outcome("", Some(GameWeather(dto)))
    /\ last' = WeatherCall("create_from_dto", dto)
    /\ UNCHANGED << jobs, now, tasks, rows, session, hist, injury_reports, writers >>

\* ------------------------------------------------------- specification
JobsInit ==
    /\ jobs = << >>
    /\ now = 0
    /\ calls = 0
    /\ tasks = [ t \in TaskIds |-> IdleTask ]
    /\ result = Outcome("", None)
    /\ writers = [ w \in Writers |-> IdleWriter ]

\* the two delete-then-reinsert tables, empty and unused
TablesInit ==
    /\ injury_reports = << >>
    /\ game_weather = << >>
    /\ last = NoCall

UpsertInit ==
    /\ rows = << >>
    /\ session \in { NewSession(autoflush, << >>) : autoflush \in BOOLEAN }
    /\ hist = NoHistory

\* the jobs' behaviours: the stat table's session (SessionLocal) stays unused
Init ==
    /\ JobsInit
    /\ rows = << >> /\ session = NewSession(FALSE, << >>) /\ hist = NoHistory
    /\ TablesInit

Next ==
    \/ \E targets \in TargetLists : create_batch_job(targets)
    \/ \E t \in TaskIds, job_id \in JobIds, targets \in TargetLists :
          execute_batch_job(t, job_id, targets)
    \/ \E t \in TaskIds : ScrapeReturns(t)
    \/ \E t \in TaskIds, message \in ErrorMessages : ScrapeRaises(t, message)
    \/ \E t \in TaskIds : SleepReturns(t)
    \/ \E job_id \in JobIds, status \in Statuses : RepoUpdateJobStatus(job_id, status)
    \/ \E job_id \in JobIds : RepoIncrementProcessed(job_id)
    \/ \E job_id \in JobIds, message \in ErrorMessages :
          RepoIncrementFailed(job_id, message)
    \/ \E job_id \in JobIds : RepoMarkComplete(job_id)
    \/ \E job_id \in JobIds : GetJobStatus(job_id)

Spec == Init /\ [][Next]_vars

\* The event loop resumes a coroutine whose awaited call has ended: a
\* scrape_and_store call in flight eventually returns or raises, and a delay
\* eventually elapses.
ScrapeEnds(t) ==
    ScrapeReturns(t) \/ \E message \in ErrorMessages : ScrapeRaises(t, message)

Fairness ==
    \A t \in TaskIds : WF_vars(ScrapeEnds(t)) /\ WF_vars(SleepReturns(t))

SpecFair == Init /\ [][Next]_vars /\ Fairness

NextUpsert ==
    \/ \E obj \in StatObjects, commit \in BOOLEAN : upsert(obj, commit)
    \/ SessionCommit
    \/ SessionClose

\* a job's creation and its run, with job-repository calls that may raise
NextStorage ==
    \/ \E targets \in TargetLists : create_batch_job(targets)
    \/ \E t \in TaskIds, job_id \in JobIds, targets \in TargetLists :
          execute_batch_job(t, job_id, targets)
    \/ \E t \in TaskIds, job_id \in JobIds, targets \in TargetLists,
          failing \in { "update_job_status", "mark_complete" } :
            execute_batch_job_fails(t, job_id, targets, failing)
    \/ \E t \in TaskIds : ScrapeReturns(t)
    \/ \E t \in TaskIds,
          failing \in { "increment_processed", "increment_failed", "mark_complete" } :
            ScrapeReturnsStorageFails(t, failing)
    \/ \E t \in TaskIds, message \in ErrorMessages : ScrapeRaises(t, message)
    \/ \E t \in TaskIds, message \in ErrorMessages,
          failing \in { "increment_failed", "mark_complete" } :
            ScrapeRaisesStorageFails(t, message, failing)
    \/ \E t \in TaskIds : SleepReturns(t)

SpecStorage == Init /\ [][NextStorage]_vars

\* jobs are created, and two sessions increment their counters
NextWriters ==
    \/ \E targets \in TargetLists : create_batch_job(targets)
    \/ \E w \in Writers, op \in IncrementOps, job_id \in DOMAIN jobs :
          WriterReads(w, op, job_id)
    \/ \E w \in Writers : WriterWrites(w)

SpecWriters == Init /\ [][NextWriters]_vars

\* a batch run in one call, then further calls on the same job: a second
\* execute_batch_job, a second mark_complete
NextRerun ==
    \/ \E t \in TaskIds, targets \in TargetLists : run_batch_scrape(t, targets)
    \/ \E t \in TaskIds, job_id \in JobIds, targets \in TargetLists :
          execute_batch_job(t, job_id, targets)
    \/ \E t \in TaskIds : ScrapeReturns(t)
    \/ \E t \in TaskIds, message \in ErrorMessages : ScrapeRaises(t, message)
    \/ \E t \in TaskIds : SleepReturns(t)
    \/ \E job_id \in JobIds : RepoMarkComplete(job_id)

SpecRerun == Init /\ [][NextRerun]_vars

\* two tasks of the host's event loop, each running run_batch_scrape or
\* execute_batch_job; they interleave at the awaits
ConcurrentTaskIds == { 1, 2 }

InitConcurrent ==
    /\ jobs = << >>
    /\ now = 0
    /\ calls = 0
    /\ tasks = [ t \in ConcurrentTaskIds |-> IdleTask ]
    /\ result = Outcome("", None)
    /\ writers = [ w \in Writers |-> IdleWriter ]
    /\ rows = << >> /\ session = NewSession(FALSE, << >>) /\ hist = NoHistory
    /\ TablesInit

NextConcurrent ==
    \/ \E t \in ConcurrentTaskIds, targets \in TargetLists : run_batch_scrape(t, targets)
    \/ \E t \in ConcurrentTaskIds, job_id \in JobIds, targets \in TargetLists :
          execute_batch_job(t, job_id, targets)
    \/ \E t \in ConcurrentTaskIds : ScrapeReturns(t)
    \/ \E t \in ConcurrentTaskIds, message \in ErrorMessages : ScrapeRaises(t, message)
    \/ \E t \in ConcurrentTaskIds : SleepReturns(t)

SpecConcurrent == InitConcurrent /\ [][NextConcurrent]_vars

\* the stat table's behaviours: no job call is made
InitUpsert == JobsInit /\ UpsertInit /\ TablesInit

SpecUpsert == InitUpsert /\ [][NextUpsert]_vars

\* the injury reports' behaviours
NextInjury ==
    \/ \E season \in Seasons, week \in Weeks,
          dtos \in ListsOf(InjuryReportCreates, MaxRecords) :
            UpsertWeekReports(season, week, dtos)
    \/ \E season \in Seasons, week \in Weeks :
          \E injury_dtos \in Scraped(season, week) :
              InjuryScrapeAndStore(season, week, injury_dtos)
    \/ \E season \in Seasons, week \in Weeks : InjuryScrapeRaises(season, week)

SpecInjury == Init /\ [][NextInjury]_vars

\* the game weather's behaviours
NextWeather ==
    \/ \E dto \in GameWeatherCreates : UpsertGameWeather(dto)
    \/ \E dto \in GameWeatherCreates : WeatherCreateFromDto(dto)

SpecWeather == Init /\ [][NextWeather]_vars

\* ================================================================ claims
WellFormed(targets) ==
    \A i \in 1..Len(targets) : { "team", "year" } \subseteq DOMAIN targets[i]

ErrorCount(job) == IF job.errors = None THEN 0 ELSE Len(job.errors[1])

RaisedCount(task) == Cardinality({ i \in 1..Len(task.raised) : task.raised[i] })

\* execute_batch_job returned, and it and the create_batch_job before it
\* (for a list of the same length) are the only calls made: the job was
\* freshly created and nobody else wrote it
FreshJobRun(t) ==
    /\ tasks[t].pc = "done"
    /\ calls = 2
    /\ jobs[tasks[t].job_id].total_urls = Len(tasks[t].targets)

\* C1: execute_batch_job on a freshly created job, n > 0 targets of which
\* exactly k raise: on return the stored job has processed = n - k,
\* failed = k, k error records, status complete and completed_at set.
C1_StoredJobAfterRun ==
    \A t \in TaskIds :
        (FreshJobRun(t) /\ tasks[t].targets # << >>) =>
            LET job == jobs[tasks[t].job_id]
                n == Len(tasks[t].targets)
                k == RaisedCount(tasks[t])
            IN  /\ job.processed = n - k
                /\ job.failed = k
                /\ ErrorCount(job) = k
                /\ job.status = "complete"
                /\ job.completed_at # None

\* C2: create_batch_job on a non-empty list whose every element has 'team'
\* and 'year' creates exactly one job (total_urls = len(targets),
\* processed = 0, failed = 0, status pending), leaves the other jobs as they
\* were and returns the new job's id.
C2_CreateBatchJob ==
    [][ \A targets \in TargetLists :
          (create_batch_job(targets) /\ targets # << >> /\ WellFormed(targets)) =>
              /\ Len(jobs') = Len(jobs) + 1
              /\ \A id \in DOMAIN jobs : jobs'[id] = jobs[id]
              /\ jobs'[Len(jobs')].total_urls = Len(targets)
              /\ jobs'[Len(jobs')].processed = 0
              /\ jobs'[Len(jobs')].failed = 0
              /\ jobs'[Len(jobs')].status = "pending"
              /\ result' = Outcome("", Some(Len(jobs'))) ]_vars

\* a job of two targets was created by the first call, which returned its id
C2_Witness ==
    /\ calls = 1
    /\ Len(jobs) = 1
    /\ jobs[1].total_urls = 2
    /\ result = Outcome("", Some(1))

\* C3: create_batch_job raises a validation error when the list is empty or
\* when an element at any position lacks 'team' or 'year', and then the
\* stored jobs are unchanged.
C3_CreateBatchJobRejects ==
    [][ \A targets \in TargetLists :
          (create_batch_job(targets) /\ (targets = << >> \/ ~WellFormed(targets))) =>
              /\ result'.exc \in { "ValueError: Targets list cannot be empty",
                                   "ValueError: Each target must have 'team' and 'year' keys" }
              /\ result'.ret = None
              /\ jobs' = jobs ]_vars

\* a malformed list was rejected after a job had been created, and the job
\* is still the only one
C3_Witness ==
    /\ result.exc = "ValueError: Each target must have 'team' and 'year' keys"
    /\ calls = 2
    /\ Len(jobs) = 1

Positions(n) == [ i \in 1..n |-> i ]

\* C4: a raising scrape-and-store call aborts nothing: after it the batch
\* goes on to the delay before the next target (or, after the last target,
\* to the return); every target up to the current one has been attempted
\* exactly once, in order, whatever the earlier outcomes; and when
\* execute_batch_job returns every target has been attempted exactly once and
\* the job is stored complete.
C4_PerTargetIsolation ==
    [][ \A t \in TaskIds :
          /\ (\E message \in ErrorMessages : ScrapeRaises(t, message)) =>
                /\ tasks'[t].pc = IF tasks[t].idx < Len(tasks[t].targets)
                                  THEN "sleeping" ELSE "done"
                /\ tasks'[t].exc = ""
          /\ tasks'[t].pc \in { "scraping", "sleeping", "done" } =>
                tasks'[t].attempted = Positions(tasks'[t].idx)
          /\ (tasks[t].pc # "done" /\ tasks'[t].pc = "done") =>
                /\ tasks'[t].attempted = Positions(Len(tasks'[t].targets))
                /\ jobs'[tasks'[t].job_id].status = "complete" ]_vars

\* the first of two targets raised, the second was attempted and succeeded,
\* and the run returned
C4_Witness ==
    \E t \in TaskIds :
        /\ tasks[t].pc = "done"
        /\ tasks[t].raised = << TRUE, FALSE >>
        /\ tasks[t].attempted = << 1, 2 >>
        /\ jobs[tasks[t].job_id].status = "complete"

\* C5: in every reachable state, every job has
\* processed + failed <= total_urls.
C5_CountersWithinTotal ==
    \A id \in DOMAIN jobs :
        jobs[id].processed + jobs[id].failed <= jobs[id].total_urls

\* C6: in every reachable state, every job has completed_at non-null
\* exactly when its status is complete.
C6_CompletedAtIffComplete ==
    \A id \in DOMAIN jobs :
        (jobs[id].completed_at # None) <=> (jobs[id].status = "complete")

\* C7: in every reachable state, every job stores as many error records as
\* its failed counter says (no error list counting as empty).
C7_ErrorsMatchFailed ==
    \A id \in DOMAIN jobs : ErrorCount(jobs[id]) = jobs[id].failed

\* everything the session did is committed
Settled ==
    session.new = << >> /\ session.mem = rows /\ session.tx = rows

RowsWithKey(key) == { id \in DOMAIN rows : NaturalKey(rows[id]) = key }

TwoUpserts == Len(hist.recent) = 2

\* C8: two upsert calls in immediate succession with the same natural key
\* and the same field values leave exactly one stored row for that key,
\* holding those values.
C8_UpsertIdempotent ==
    (Settled /\ TwoUpserts /\ hist.recent[1].obj = hist.recent[2].obj) =>
        \E id \in DOMAIN rows :
            /\ RowsWithKey(NaturalKey(hist.recent[2].obj)) = { id }
            /\ rows[id] = hist.recent[2].obj

\* C9: two upsert calls with the same natural key and different non-key
\* values leave exactly one stored row for that key: it has the id the first
\* call gave it and every field has the second call's value.
C9_UpsertOverwrites ==
    ( /\ Settled
      /\ TwoUpserts
      /\ NaturalKey(hist.recent[1].obj) = NaturalKey(hist.recent[2].obj)
      /\ hist.recent[1].obj # hist.recent[2].obj ) =>
        /\ RowsWithKey(NaturalKey(hist.recent[2].obj)) = { hist.recent[1].id }
        /\ rows[hist.recent[1].id] = hist.recent[2].obj

\* C10: starting from an empty table, once every upsert made is committed
\* (also when commits were deferred and the same key came more than once in
\* one deferred batch), the table holds exactly one row for each natural key
\* upserted.
C10_OneRowPerKey ==
    Settled =>
        \A key \in hist.committed : Cardinality(RowsWithKey(key)) = 1

\* C12: once execute_batch_job has resolved its job, no exception escapes
\* it: the only exception that leaves execute_batch_job is job-not-found, and
\* the only ones that leave create_batch_job are its validation errors.
C12_OnlyNotFoundEscapes ==
    /\ \A t \in TaskIds :
          tasks[t].pc = "raised" => tasks[t].exc = "ValueError: Job not found"
    /\ result.exc \in { "", "ValueError: Targets list cannot be empty",
                        "ValueError: Each target must have 'team' and 'year' keys" }

\* C13: execute_batch_job with an id that resolves to no job raises
\* not-found before any effect, for every target list (the empty one
\* included): the stored jobs are unchanged, no target is scraped, no delay
\* is taken and the clock is not read.
C13_NotFoundBeforeAnyEffect ==
    [][ \A t \in TaskIds, job_id \in JobIds :
          get_by_id(jobs, job_id) = None =>
            \A targets \in TargetLists :
                execute_batch_job(t, job_id, targets) =>
                    /\ tasks'[t].pc = "raised"
                    /\ tasks'[t].exc = "ValueError: Job not found"
                    /\ jobs' = jobs
                    /\ tasks'[t].attempted = << >>
                    /\ tasks'[t].raised = << >>
                    /\ tasks'[t].delays = 0
                    /\ now' = now ]_vars

\* a job is stored, and execute_batch_job was called with another id
C13_Witness ==
    \E t \in TaskIds :
        /\ tasks[t].pc = "raised"
        /\ tasks[t].exc = "ValueError: Job not found"
        /\ tasks[t].job_id = 2
        /\ Len(jobs) = 1

\* the positions whose scrape_and_store call raised, in processing order
FailedPositions(task) ==
    LET IsRaised(i) == task.raised[i]
    IN  SelectSeq(Positions(Len(task.raised)), IsRaised)

\* C14: the summary execute_batch_job returns has total = the number of
\* targets supplied, succeeded + failed = total, and exactly `failed` error
\* records, one per failed target, each with that target, an error message
\* and a timestamp.
C14_SummaryConsistent ==
    \A t \in TaskIds :
        tasks[t].pc = "done" =>
            LET summary  == Summary(tasks[t])
                failedAt == FailedPositions(tasks[t])
            IN  /\ summary.total = Len(tasks[t].targets)
                /\ summary.succeeded + summary.failed = summary.total
                /\ Len(summary.errors) = summary.failed
                /\ Len(failedAt) = summary.failed
                /\ \A i \in 1..Len(summary.errors) :
                      /\ DOMAIN summary.errors[i] = { "target", "error", "timestamp" }
                      /\ summary.errors[i].target = tasks[t].targets[failedAt[i]]
                      /\ summary.errors[i].error \in ErrorMessages
                      /\ summary.errors[i].timestamp \in 0..MaxTime

\* a run of two targets returned a summary of one success and one failure
C14_Witness ==
    \E t \in TaskIds :
        /\ tasks[t].pc = "done"
        /\ Summary(tasks[t]).total = 2
        /\ Summary(tasks[t]).succeeded = 1
        /\ Summary(tasks[t]).failed = 1
        /\ Len(Summary(tasks[t]).errors) = 1

\* C15: get_job_status, update_job_status, increment_processed,
\* increment_failed and mark_complete, called with an id that resolves to no
\* job, return None without raising and leave every stored job unchanged.
C15_AbsentJobYieldsNone ==
    [][ \A job_id \in JobIds :
          get_by_id(jobs, job_id) = None =>
            ( ( \/ GetJobStatus(job_id)
                \/ \E status \in Statuses : RepoUpdateJobStatus(job_id, status)
                \/ RepoIncrementProcessed(job_id)
                \/ \E message \in ErrorMessages : RepoIncrementFailed(job_id, message)
                \/ RepoMarkComplete(job_id) ) =>
                    /\ result' = Outcome("", None)
                    /\ jobs' = jobs ) ]_vars

\* one job is stored, and the second call (on another id) returned None
C15_Witness ==
    /\ calls = 2
    /\ Len(jobs) = 1
    /\ jobs[1] = NewScrapeJob(jobs[1].total_urls)
    /\ result = Outcome("", None)

\* C16: if every scrape_and_store call and every delay ends, every
\* execute_batch_job call that found its job eventually returns with the job
\* stored complete, for every target list.
C16_RunTerminatesComplete ==
    \A t \in TaskIds :
        []( ( tasks[t].pc \in { "scraping", "sleeping", "raised" }
              /\ tasks[t].exc # "ValueError: Job not found" ) =>
                <>( tasks[t].pc = "done"
                    /\ jobs[tasks[t].job_id].status = "complete" ) )

StoredErrors(job) == IF job.errors = None THEN << >> ELSE job.errors[1]

\* C19: execute_batch_job attempts the targets in the order supplied, and
\* the error records of the returned summary and of the stored job are those
\* of the failed targets, in processing order.
C19_OrderPreserved ==
    \A t \in TaskIds :
        FreshJobRun(t) =>
            LET failedAt == FailedPositions(tasks[t])
                errors   == Summary(tasks[t]).errors
            IN  /\ tasks[t].attempted = Positions(Len(tasks[t].targets))
                /\ Len(errors) = Len(failedAt)
                /\ \A i \in 1..Len(errors) :
                      errors[i].target = tasks[t].targets[failedAt[i]]
                /\ StoredErrors(jobs[tasks[t].job_id]) = errors

\* C20: execute_batch_job takes the delay once after each target but the
\* last, after that target has resolved and before the next one starts:
\* none before the first target, none after the last (whose resolution goes
\* straight to mark_complete and the return), max(n - 1, 0) in all.
C20_DelayBetweenTargets ==
    [][ \A t \in TaskIds :
          /\ tasks'[t].pc = "scraping" =>
                tasks'[t].delays = tasks'[t].idx - 1
          /\ tasks'[t].pc = "sleeping" =>
                /\ tasks'[t].delays = tasks'[t].idx - 1
                /\ tasks'[t].idx < Len(tasks'[t].targets)
                /\ Len(tasks'[t].raised) = tasks'[t].idx
          /\ tasks'[t].pc = "done" =>
                tasks'[t].delays = IF tasks'[t].targets = << >>
                                   THEN 0 ELSE Len(tasks'[t].targets) - 1
          /\ (ScrapeEnds(t) /\ tasks[t].idx < Len(tasks[t].targets)) =>
                tasks'[t].pc = "sleeping"
          /\ (ScrapeEnds(t) /\ tasks[t].idx = Len(tasks[t].targets)) =>
                /\ tasks'[t].pc = "done"
                /\ tasks'[t].delays = tasks[t].delays
                /\ jobs'[tasks[t].job_id].status = "complete"
          /\ SleepReturns(t) =>
                /\ tasks'[t].delays = tasks[t].delays + 1
                /\ tasks'[t].idx = tasks[t].idx + 1
                /\ tasks'[t].pc \in { "scraping", "raised" } ]_vars

\* a run of two targets, the second failing, returned after one delay
C20_Witness ==
    \E t \in TaskIds :
        /\ tasks[t].pc = "done"
        /\ Len(tasks[t].targets) = 2
        /\ tasks[t].raised = << FALSE, TRUE >>
        /\ tasks[t].delays = 1

\* the rows stored for (season, week), in insertion order
RowsOfWeek(season, week) ==
    LET InWeek(row) == row.season = season /\ row.week = week
    IN  SelectSeq(injury_reports, InWeek)

\* C11: after upsert_week_reports(season, week, records), records being
\* reports of that season and week, the rows stored for (season, week) are
\* exactly the records of this call: the rows earlier calls stored for that
\* week are gone.
C11_WeekReplaced ==
    ( /\ last.op = "upsert_week_reports"
      /\ \A i \in DOMAIN last.dtos :
            last.dtos[i].season = last.season /\ last.dtos[i].week = last.week ) =>
        RowsOfWeek(last.season, last.week) = InjuryReports(last.dtos)

\* two rows were stored for the week, and a call with one record left that
\* record as the week's only row
C11_Witness ==
    /\ last.op = "upsert_week_reports"
    /\ last.before = 2
    /\ Len(last.dtos) = 1
    /\ last.dtos[1].week = last.week
    /\ RowsOfWeek(last.season, last.week) = InjuryReports(last.dtos)

SameGame(a, b) ==
    a.season = b.season /\ a.week = b.week /\ a.home_team = b.home_team

AtMostOnePerGame(table) ==
    \A i, j \in DOMAIN table : SameGame(table[i], table[j]) => i = j

\* the rows of the games other than dto's, in insertion order
OtherGames(table, dto) ==
    LET Other(row) == ~SameGame(row, dto)
    IN  SelectSeq(table, Other)

\* C17: after any sequence of upsert_game_weather calls at most one row is
\* stored per (season, week, home_team); each call returns without an
\* exception, leaves for its game the one row holding its values, and leaves
\* the rows of other games unchanged.
C17_GameWeatherIdempotent ==
    [][ /\ last'.upserts_only => AtMostOnePerGame(game_weather')
        /\ \A dto \in GameWeatherCreates :
              (UpsertGameWeather(dto) /\ last.upserts_only) =>
                  /\ result' = Outcome("", Some(GameWeather(dto)))
                  /\ \E i \in DOMAIN game_weather' :
                        /\ game_weather'[i] = GameWeather(dto)
                        /\ get_by_game(game_weather', dto.season, dto.week,
                                       dto.home_team) = { i }
                  /\ OtherGames(game_weather', dto) = OtherGames(game_weather, dto)
      ]_vars

\* the second upsert_game_weather call for a game, with another
\* temperature, left one row: its own
C17_Witness ==
    /\ last.op = "upsert_game_weather"
    /\ last.upserts_only
    /\ calls = 2
    /\ game_weather = << GameWeather(last.dto) >>
    /\ last.dto.temperature = 70

\* C18: after a successful InjuryReportService.scrape_and_store(season,
\* week) the rows stored for (season, week) are exactly the reports scraped
\* in this run; no row of an earlier run remains.
C18_ScrapeAndStoreReplaces ==
    (last.op = "scrape_and_store" /\ result.exc = "") =>
        RowsOfWeek(last.season, last.week) = InjuryReports(last.dtos)

\* C21: over create_batch_job followed by execute_batch_job (the only two
\* calls made), the job's status goes pending, running, complete and no
\* other way: it is pending until execute_batch_job is entered, running
\* whenever a target is being attempted, complete only once the last target
\* has resolved, and never failed.  (For an empty list, running and complete
\* are stored in the same step of the event loop.)
C21_StatusOrder ==
    [][ \A t \in TaskIds :
          ( /\ calls' = 2
            /\ Len(jobs') = 1
            /\ tasks'[t].pc # "idle"
            /\ tasks'[t].exc # "ValueError: Job not found" ) =>
              LET before == jobs[1].status
                  after  == jobs'[1].status
                  task   == tasks'[t]
              IN  /\ after # "failed"
                  /\ calls = 1 => before = "pending"
                  /\ before # after =>
                        \/ before = "pending" /\ after = "running"
                        \/ before = "running" /\ after = "complete"
                        \/ before = "pending" /\ after = "complete"
                                              /\ task.targets = << >>
                  /\ task.pc \in { "scraping", "sleeping" } => after = "running"
                  /\ task.attempted # << >> => after \in { "running", "complete" }
                  /\ after = "complete" =>
                        /\ task.pc = "done"
                        /\ Len(task.raised) = Len(task.targets)
                  /\ task.pc = "done" => after = "complete" ]_vars

\* both targets of the job's only run failed, and the job is complete
C21_Witness ==
    \E t \in TaskIds :
        /\ calls = 2
        /\ Len(jobs) = 1
        /\ tasks[t].pc = "done"
        /\ tasks[t].raised = << TRUE, TRUE >>
        /\ jobs[1].status = "complete"
        /\ jobs[1].processed = 0

\* C22: for each target attempted, exactly one of increment_processed /
\* increment_failed is invoked, once, in the step in which the target's
\* scrape_and_store call returns (increment_processed) or raises
\* (increment_failed, with one error record), hence before the next target's
\* scrape starts; no other step of execute_batch_job touches a counter.
C22_OneIncrementPerTarget ==
    [][ \A t \in TaskIds :
          LET id == tasks[t].job_id
          IN  /\ ScrapeReturns(t) =>
                    /\ jobs'[id].processed = jobs[id].processed + 1
                    /\ jobs'[id].failed = jobs[id].failed
                    /\ jobs'[id].errors = jobs[id].errors
                    /\ tasks'[t].succeeded = tasks[t].succeeded + 1
                    /\ tasks'[t].failed_count = tasks[t].failed_count
              /\ (\E message \in ErrorMessages : ScrapeRaises(t, message)) =>
                    /\ jobs'[id].failed = jobs[id].failed + 1
                    /\ jobs'[id].processed = jobs[id].processed
                    /\ ErrorCount(jobs'[id]) <= ErrorCount(jobs[id]) + 1
                    /\ tasks'[t].failed_count = tasks[t].failed_count + 1
                    /\ tasks'[t].succeeded = tasks[t].succeeded
                    /\ Len(tasks'[t].errors) = Len(tasks[t].errors) + 1
              /\ (tasks'[t] # tasks[t] /\ ~ScrapeEnds(t)) =>
                    \A j \in DOMAIN jobs :
                        /\ jobs'[j].processed = jobs[j].processed
                        /\ jobs'[j].failed = jobs[j].failed
                        /\ jobs'[j].errors = jobs[j].errors ]_vars

\* a run of two targets, the first succeeding and the second failing, ended
\* with one increment of each counter
C22_Witness ==
    \E t \in TaskIds :
        /\ calls = 2
        /\ tasks[t].pc = "done"
        /\ tasks[t].raised = << FALSE, TRUE >>
        /\ jobs[tasks[t].job_id].processed = 1
        /\ jobs[tasks[t].job_id].failed = 1

\* C28: after execute_batch_job returns for a job created by create_batch_job
\* with the same list and executed once, the summary agrees with the stored
\* job: succeeded = processed, failed = failed, total = total_urls, and the
\* same error list.
C28_SummaryAgreesWithJob ==
    \A t \in TaskIds :
        FreshJobRun(t) =>
            LET summary == Summary(tasks[t])
                job     == jobs[tasks[t].job_id]
            IN  /\ summary.succeeded = job.processed
                /\ summary.failed = job.failed
                /\ summary.total = job.total_urls
                /\ summary.errors = StoredErrors(job)

\* the table as the session will write it: its persistent objects as they
\* are in memory, then the objects added and not yet flushed
View(s) == s.mem \o s.new

\* C27: an upsert call changes an existing row only if the row equals the
\* candidate on every natural-key field; a row that agrees on a proper
\* subset of the key fields, or on none, is left as it was, and when no row
\* has the candidate's key the candidate is added as a new row.  Stated on
\* the session's view of the table, and on the committed rows for a call
\* made with nothing pending.
C27_OverwriteOnlyOnFullKey ==
    [][ hist'.n = hist.n + 1 =>
          LET obj    == hist'.recent[Len(hist'.recent)].obj
              before == View(session)
              after  == View(session')
          IN  /\ Len(after) >= Len(before)
              /\ \A id \in DOMAIN before :
                    after[id] # before[id] =>
                        NaturalKey(before[id]) = NaturalKey(obj)
              /\ (\A id \in DOMAIN before :
                        NaturalKey(before[id]) # NaturalKey(obj)) =>
                    after = Append(before, obj)
              /\ hist.pending = { } =>
                    /\ Len(rows') >= Len(rows)
                    /\ \A id \in DOMAIN rows :
                          rows'[id] # rows[id] =>
                              NaturalKey(rows[id]) = NaturalKey(obj) ]_vars

\* two committed upserts for the same team in different seasons: the second
\* found a row that agrees on tm only and was stored as a second row
C27_Witness ==
    /\ TwoUpserts
    /\ hist.n = 2
    /\ hist.recent[1].commit /\ hist.recent[2].commit
    /\ hist.recent[1].obj.tm = hist.recent[2].obj.tm
    /\ hist.recent[1].obj.season # hist.recent[2].obj.season
    /\ rows = << hist.recent[1].obj, hist.recent[2].obj >>

\* C30: a per-stat scrape_and_store run is all-or-nothing.  Its upserts are
\* made with commit=False and store nothing; when a step fails before the
\* final commit, the finally block's db.close() rolls the transaction back:
\* the stored rows are as before the run and the session holds nothing of the
\* run that a later commit could write.
C30_AllOrNothing ==
    [][ /\ ( /\ hist'.n = hist.n + 1
             /\ ~hist'.recent[Len(hist'.recent)].commit ) => rows' = rows
        /\ SessionClose =>
              /\ rows' = rows
              /\ session'.tx = rows
              /\ session'.mem = rows
              /\ session'.new = << >> ]_vars

\* a run failed after its upserts: three upserts were made, the last call on
\* the session was the close, and one row (committed before the run) is
\* stored
C30_Witness ==
    /\ hist.n = 3
    /\ hist.recent = << >>
    /\ hist.pending = { }
    /\ Len(rows) = 1
    /\ hist.committed = { NaturalKey(rows[1]) }
    /\ Settled

\* C24: completed_at is null until the job is stored complete, and once it
\* is non-null no later operation on the job changes its value.
C24_CompletedAtSetOnce ==
    [][ \A id \in DOMAIN jobs :
          /\ (jobs[id].completed_at = None /\ jobs'[id].completed_at # None) =>
                jobs'[id].status = "complete"
          /\ jobs[id].completed_at # None =>
                jobs'[id].completed_at = jobs[id].completed_at ]_vars

\* C25: no two scrape_and_store calls are in flight for the same job id,
\* whatever tasks run concurrently.
C25_OneScrapeInFlightPerJob ==
    \A t1, t2 \in DOMAIN tasks :
        ( /\ t1 # t2
          /\ tasks[t1].pc = "scraping"
          /\ tasks[t2].pc = "scraping" ) => tasks[t1].job_id # tasks[t2].job_id

\* C29: once a job is complete, no step of the orchestrator changes its
\* status, its counters or its error list.
C29_CompleteIsTerminal ==
    [][ \A id \in DOMAIN jobs :
          (jobs[id].status = "complete" /\ tasks' # tasks) =>
              /\ jobs'[id].status = "complete"
              /\ jobs'[id].processed = jobs[id].processed
              /\ jobs'[id].failed = jobs[id].failed
              /\ jobs'[id].errors = jobs[id].errors ]_vars

\* the exception of the failing repository call has left execute_batch_job
Propagated(task) == task.pc = "raised" /\ task.exc = StorageError

\* C23: when update_job_status, increment_processed, increment_failed or
\* mark_complete raises inside execute_batch_job, the exception leaves
\* execute_batch_job (the batch is aborted), and the storage failure is not
\* counted or recorded as a failure of the target.
C23_StorageFailurePropagates ==
    [][ \A t \in TaskIds :
          /\ (\E job_id \in JobIds, targets \in TargetLists,
                 failing \in { "update_job_status", "mark_complete" } :
                    execute_batch_job_fails(t, job_id, targets, failing)) =>
                Propagated(tasks'[t])
          /\ (\E failing \in { "increment_processed", "increment_failed",
                                "mark_complete" } :
                    ScrapeReturnsStorageFails(t, failing)) =>
                /\ Propagated(tasks'[t])
                /\ tasks'[t].failed_count = tasks[t].failed_count
                /\ jobs'[tasks[t].job_id].failed = jobs[tasks[t].job_id].failed
          /\ (\E message \in ErrorMessages,
                 failing \in { "increment_failed", "mark_complete" } :
                    ScrapeRaisesStorageFails(t, message, failing)) =>
                Propagated(tasks'[t]) ]_vars

\* the calls `op` on job `id` that returned to writer w
Count(w, op, id) ==
    Cardinality({ i \in DOMAIN writers[w].done :
                    writers[w].done[i] = [ op |-> op, job_id |-> id ] })

\* writer w is the only session that has called an increment, and it is
\* between calls
SingleWriter(w) ==
    /\ writers[w].pc = "idle"
    /\ \A other \in Writers \ { w } : writers[other] = IdleWriter

\* C26: with a single sequential writer the stored counters of a job are
\* the numbers of increment_processed and increment_failed calls made on
\* it; with two sessions a counter never exceeds the number of calls made
\* (and can end below it: the witness).
C26_SingleWriterCounts ==
    \A id \in DOMAIN jobs :
        /\ \A w \in Writers :
              SingleWriter(w) =>
                  /\ jobs[id].processed = Count(w, "increment_processed", id)
                  /\ jobs[id].failed = Count(w, "increment_failed", id)
        /\ jobs[id].processed <= Count(1, "increment_processed", id)
                                  + Count(2, "increment_processed", id)
        /\ jobs[id].failed <= Count(1, "increment_failed", id)
                               + Count(2, "increment_failed", id)

\* a lost update: both sessions' increment_processed calls on the job
\* returned and the stored counter is 1
C26_Witness ==
    \E id \in DOMAIN jobs :
        /\ \A w \in Writers : writers[w].pc = "idle"
        /\ Count(1, "increment_processed", id) = 1
        /\ Count(2, "increment_processed", id) = 1
        /\ jobs[id].processed = 1

====
